---- MODULE Spec2Model ----
(***************************************************************************)
(* A model of four parts of ephios:                                        *)
(*   - the consequence endpoint (user_management/views/consequences.py),   *)
(*   - the settings loader (settings.py),                                  *)
(*   - the page-context processor (core/context.py),                       *)
(*   - the simpleresource plugin's tables and their cascade rules          *)
(*     (plugins/simpleresource/models.py).                                 *)
(* Each part has its own variables and its own specification; the other    *)
(* parts' variables stay at their initial value under it.                  *)
(***************************************************************************)
EXTENDS Integers, Sequences, FiniteSets, TLC

VARIABLES
    approvers,      \* consequence id -> the users who may confirm or deny it
    consequences,   \* consequence id -> [state, fail_reason]: the Consequence table
    response,       \* the request last handled by ConsequenceUpdateView and its response
    environ,        \* the process environment settings.py reads
    entry_points,   \* the values of the "ephios.plugins" entry points, in discovery order
    settings,       \* the outcome of importing settings.py
    footer_link,    \* what each receiver of the footer_link signal returns, in receiver order
    nav_link,       \* what each receiver of the nav_link signal returns, in receiver order
    context,        \* the outcome of ephios_base_context
    categories,     \* the ResourceCategory rows
    resources,      \* the Resource rows: resource -> its category
    shifts,         \* the Shift rows
    allocations,    \* the ResourceAllocation rows: allocation -> its shift
    allocation_resources,   \* the rows of ResourceAllocation.resources: <<allocation, resource>>
    last_op         \* the last operation on the tables and what it deleted

conseq_vars == <<approvers, consequences, response>>

settings_vars == <<environ, entry_points, settings>>

context_vars == <<footer_link, nav_link, context>>

resource_vars ==
    <<categories, resources, shifts, allocations, allocation_resources, last_op>>

vars ==
    <<approvers, consequences, response, environ, entry_points, settings,
      footer_link, nav_link, context,
      categories, resources, shifts, allocations, allocation_resources, last_op>>

(***************************************************************************)
(* Part 1: the consequence endpoint                                        *)
(***************************************************************************)

\* The number of rows of the Consequence table.
NumConsequences == 2

ConsequenceIds == 1..NumConsequences

\* The primary keys a request may name; the last one matches no row.
PKs == 1..(NumConsequences + 1)

Users == {"alice", "bob"}

\* request.user of a request without an authenticated session.
AnonymousUser == "AnonymousUser"

\* Consequence.States
NEEDS_CONFIRMATION == "needs_confirmation"
CONFIRMED == "confirmed"
DENIED == "denied"
FAILED == "failed"

TerminalStates == {CONFIRMED, DENIED, FAILED}

\* The reasons a failing confirmation may record.
Reasons == {"reason_a", "reason_b"}

\* What executing a consequence's effect comes to: success, or a failure
\* with its reason.
EffectOk == "ok"
Outcomes == {EffectOk} \cup Reasons

\* Only confirm executes the effect, so only its outcome is open.
EffectsOf(action) == IF action = "confirm" THEN Outcomes ELSE {EffectOk}

\* fail_reason of a consequence that has not failed.
NoReason == ""

\* request.POST["action"]: the two valid values, an unknown value, and a
\* POST that carries no "action" field at all.
NoAction == "<missing>"
Actions == {"deny", "confirm", "other", NoAction}

\* The sets of users that may be empowered to approve one consequence: a
\* manager alone, or the manager and a second user.
ApproverSets == {{"alice"}, {"alice", "bob"}}

\* editable_consequences(user): the consequences the user may act on.
editable_consequences(user) ==
    {c \in ConsequenceIds : user \in approvers[c]}

\* Consequence.deny without the check that the consequence is still pending.
deny_unguarded(cons, c) ==
    [cons EXCEPT ![c] = [state |-> DENIED, fail_reason |-> @.fail_reason]]

\* Consequence.deny(user): a pending consequence becomes DENIED; a terminal
\* one is left as it is.
deny(cons, c) ==
    IF cons[c].state = NEEDS_CONFIRMATION
    THEN [cons EXCEPT ![c] = [state |-> DENIED, fail_reason |-> @.fail_reason]]
    ELSE cons

\* Consequence.confirm(user): execute the effect of a pending consequence;
\* success gives CONFIRMED, a failure gives FAILED with the reason.
confirm(cons, c, outcome) ==
    IF cons[c].state = NEEDS_CONFIRMATION
    THEN IF outcome = EffectOk
         THEN [cons EXCEPT ![c] = [state |-> CONFIRMED, fail_reason |-> NoReason]]
         ELSE [cons EXCEPT ![c] = [state |-> FAILED, fail_reason |-> outcome]]
    ELSE cons

\* SingleObjectMixin.get_object over get_queryset with every consequence in
\* the queryset instead of the requesting user's editable ones.
get_object_unfiltered(user, pk) ==
    IF pk \in ConsequenceIds THEN {pk} ELSE {}

\* get_queryset / get_object: the row with the given pk among the user's
\* editable consequences; the empty set stands for Http404.
get_object(user, pk) ==
    IF pk \in editable_consequences(user) THEN {pk} ELSE {}

\* The action branch with a plain else in place of the elif.
perform_else(cons, c, action, outcome) ==
    IF action = "deny"
    THEN [cons |-> deny(cons, c), called |-> "deny"]
    ELSE [cons |-> confirm(cons, c, outcome), called |-> "confirm"]

\* post, lines 19-22: which method the action value invokes, and the table
\* afterwards.
perform(cons, c, action, outcome) ==
    IF action = "deny"
    THEN [cons |-> deny(cons, c), called |-> "deny"]
    ELSE IF action = "confirm"
         THEN [cons |-> confirm(cons, c, outcome), called |-> "confirm"]
         ELSE [cons |-> cons, called |-> "none"]

\* The response with the flash message added whenever the consequence is
\* not CONFIRMED.
respond_flash_unless_confirmed(is_ajax, consequence) ==
    IF is_ajax
    THEN [kind |-> "json",
          body |-> [state |-> consequence.state,
                    fail_reason |-> consequence.fail_reason],
          flash_error |-> FALSE]
    ELSE [kind |-> "redirect:event_management:index",
          body |-> <<>>,
          flash_error |-> (consequence.state # CONFIRMED)]

\* post, lines 24-30: the JSON body for a background request, else the
\* redirect, with the error message when the consequence is FAILED.
respond(is_ajax, consequence) ==
    IF is_ajax
    THEN [kind |-> "json",
          body |-> [state |-> consequence.state,
                    fail_reason |-> consequence.fail_reason],
          flash_error |-> FALSE]
    ELSE [kind |-> "redirect:event_management:index",
          body |-> <<>>,
          flash_error |-> (consequence.state = FAILED)]

\* A response that carries no body and no message.
bare_response(kind) ==
    [kind |-> kind, body |-> <<>>, flash_error |-> FALSE]

\* The request as the model records it beside its response; "called" names
\* the Consequence method the handler invoked.
handled(user, pk, action, is_ajax, called, resp) ==
    [user |-> user, pk |-> pk, action |-> action, is_ajax |-> is_ajax,
     called |-> called, kind |-> resp.kind, body |-> resp.body,
     flash_error |-> resp.flash_error]

\* ConsequenceUpdateView: LoginRequiredMixin.dispatch, then post.
post(user, pk, action, is_ajax, outcome) ==
    IF user = AnonymousUser
    THEN /\ response' = handled(user, pk, action, is_ajax, "none",
                                bare_response("redirect:login"))
         /\ UNCHANGED <<approvers, consequences>>
    ELSE IF get_object(user, pk) = {}
    THEN /\ response' = handled(user, pk, action, is_ajax, "none",
                                bare_response("not_found"))
         /\ UNCHANGED <<approvers, consequences>>
    ELSE IF action = NoAction
    THEN /\ response' = handled(user, pk, action, is_ajax, "none",
                                bare_response("server_error"))
         /\ UNCHANGED <<approvers, consequences>>
    ELSE LET done == perform(consequences, pk, action, outcome)
         IN /\ consequences' = done.cons
            /\ response' = handled(user, pk, action, is_ajax, done.called,
                                   respond(is_ajax, done.cons[pk]))
            /\ UNCHANGED approvers

NoRequest ==
    handled("-", 0, "-", FALSE, "none", bare_response("none"))

\* The consequence tables as they are created: every consequence pending.
ConsequencesCreated ==
    /\ consequences =
           [c \in ConsequenceIds |->
               [state |-> NEEDS_CONFIRMATION, fail_reason |-> NoReason]]
    /\ response = NoRequest

(***************************************************************************)
(* Part 2: the settings loader                                             *)
(***************************************************************************)

\* The variables read without a default, in the order settings.py reads them.
RequiredVars ==
    <<"SECRET_KEY", "DEBUG", "ALLOWED_HOSTS", "DATABASE_URL", "STATIC_URL",
      "STATIC_ROOT", "EMAIL_URL", "DEFAULT_FROM_EMAIL", "SERVER_EMAIL", "ADMINS">>

\* The variables read without a default when ENABLE_OIDC_CLIENT is true.
OIDCVars ==
    <<"OIDC_RP_CLIENT_ID", "OIDC_RP_CLIENT_SECRET", "OIDC_RP_SIGN_ALGO",
      "OIDC_OP_AUTHORIZATION_ENDPOINT", "OIDC_OP_TOKEN_ENDPOINT",
      "OIDC_OP_USER_ENDPOINT", "OIDC_OP_JWKS_ENDPOINT">>

\* The variables the documentation lists as optional.
OptionalVars ==
    {"DATA_DIR", "CACHE_URL", "LOGGING_FILE", "LOGGING_BACKUP_DAYS",
     "DEBUG_TOOLBAR", "INTERNAL_IPS", "VAPID_PRIVATE_KEY_PATH",
     "ENABLE_OIDC_CLIENT", "SITE_URL"}

Range(seq) == {seq[i] : i \in 1..Len(seq)}

EnvVars == Range(RequiredVars) \cup Range(OIDCVars) \cup OptionalVars

\* Marks a setting the loader has not assigned.
Unset == "<unset>"

\* env.bool(name, default) for the three boolean variables, whose values the
\* environment record holds under their names.
env_bool(env, name, default) ==
    IF name \in env.present THEN env.values[name] ELSE default

\* The first name of the sequence that the environment lacks: the variable
\* environ reports in ImproperlyConfigured; Unset when none is lacking.
first_missing(env, names) ==
    IF \E i \in 1..Len(names) : names[i] \notin env.present
    THEN names[CHOOSE i \in 1..Len(names) :
                   /\ names[i] \notin env.present
                   /\ \A j \in 1..(i - 1) : names[j] \in env.present]
    ELSE Unset

SECURE_HSTS_SECONDS == 3600

\* The hardening block guarded by "if DEBUG" instead of "if not DEBUG".
hardening_inverted(DEBUG) ==
    IF DEBUG
    THEN [SESSION_COOKIE_SECURE |-> TRUE,
          CSRF_COOKIE_SECURE |-> TRUE,
          X_FRAME_OPTIONS |-> "DENY",
          SECURE_CONTENT_TYPE_NOSNIFF |-> TRUE,
          SECURE_SSL_REDIRECT |-> TRUE,
          SECURE_HSTS_SECONDS |-> SECURE_HSTS_SECONDS,
          SECURE_HSTS_INCLUDE_SUBDOMAINS |-> TRUE,
          SECURE_REFERRER_POLICY |-> "same-origin"]
    ELSE <<>>

\* Lines 42-50: the settings assigned when DEBUG is false, as a mapping from
\* setting name to value; nothing is assigned when DEBUG is true.
hardening(DEBUG) ==
    IF ~DEBUG
    THEN [SESSION_COOKIE_SECURE |-> TRUE,
          CSRF_COOKIE_SECURE |-> TRUE,
          X_FRAME_OPTIONS |-> "DENY",
          SECURE_CONTENT_TYPE_NOSNIFF |-> TRUE,
          SECURE_SSL_REDIRECT |-> TRUE,
          SECURE_HSTS_SECONDS |-> SECURE_HSTS_SECONDS,
          SECURE_HSTS_INCLUDE_SUBDOMAINS |-> TRUE,
          SECURE_REFERRER_POLICY |-> "same-origin"]
    ELSE <<>>

\* Line 209: the mapping env.email_url returns, which line 210 writes into
\* the module's namespace.
EMAIL_CONFIG ==
    [EMAIL_BACKEND |-> "from EMAIL_URL",
     EMAIL_HOST |-> "from EMAIL_URL",
     EMAIL_PORT |-> "from EMAIL_URL",
     EMAIL_HOST_USER |-> "from EMAIL_URL",
     EMAIL_HOST_PASSWORD |-> "from EMAIL_URL",
     EMAIL_FILE_PATH |-> "from EMAIL_URL"]

\* vars().update(mapping): the mapping's names are assigned, overwriting.
vars_update(namespace, mapping) == mapping @@ namespace

THIRD_PARTY_APPS ==
    <<"django.contrib.admin", "django.contrib.auth", "polymorphic",
      "django.contrib.contenttypes", "django.contrib.sessions",
      "django.contrib.messages", "django.contrib.staticfiles",
      "django.contrib.humanize", "django_filters", "guardian",
      "oauth2_provider", "rest_framework", "django_select2", "djangoformsetjs",
      "compressor", "recurrence", "statici18n",
      "dynamic_preferences.users.apps.UserPreferencesConfig", "crispy_forms",
      "crispy_bootstrap5", "webpush", "ephios.modellogging">>

EPHIOS_CORE_MODULES == <<"ephios.core", "ephios.extra", "ephios.api">>

CORE_PLUGINS ==
    <<"ephios.plugins.basesignup.apps.PluginApp",
      "ephios.plugins.pages.apps.PluginApp",
      "ephios.plugins.qualification_management.apps.PluginApp",
      "ephios.plugins.guests.apps.PluginApp",
      "ephios.plugins.eventautoqualification.apps.PluginApp",
      "ephios.plugins.simpleresource.apps.PluginApp">>

\* Python lists are objects: the heap maps a reference to the list it holds.
\* A fresh reference is the next unused number.
new_ref(heap) == Cardinality(DOMAIN heap) + 1

\* PLUGINS = CORE_PLUGINS: a second name for the same list.
copy_alias(heap, ref) == [heap |-> heap, ref |-> ref]

\* copy.copy(list): a new list with the same elements.
copy_copy(heap, ref) ==
    [heap |-> (new_ref(heap) :> heap[ref]) @@ heap, ref |-> new_ref(heap)]

\* list.append(value), in place.
list_append(heap, ref, value) ==
    [heap EXCEPT ![ref] = Append(@, value)]

\* Lines 97-98: for ep in entry_points: PLUGINS.append(ep.value)
RECURSIVE append_entry_points(_, _, _)
append_entry_points(heap, ref, eps) ==
    IF eps = <<>>
    THEN heap
    ELSE append_entry_points(list_append(heap, ref, Head(eps)), ref, Tail(eps))

\* Lines 88-98: the heap after CORE_PLUGINS and PLUGINS are built, with the
\* references the two names hold.
plugin_lists(eps) ==
    LET core_ref == new_ref(<<>>)
        heap0 == core_ref :> CORE_PLUGINS
        copied == copy_copy(heap0, core_ref)
        heap1 == append_entry_points(copied.heap, copied.ref, eps)
    IN  [CORE_PLUGINS |-> heap1[core_ref], PLUGINS |-> heap1[copied.ref]]

\* INSTALLED_APPS with dynamic_preferences added before the plugins.
installed_apps_prefs_first(plugins, toolbar, oidc) ==
    EPHIOS_CORE_MODULES \o THIRD_PARTY_APPS
        \o <<"dynamic_preferences">>
        \o plugins
        \o (IF toolbar THEN <<"django_extensions", "debug_toolbar">> ELSE <<>>)
        \o (IF oidc THEN <<"mozilla_django_oidc">> ELSE <<>>)

\* Lines 54-102, 302-303 and 414: INSTALLED_APPS as the loader leaves it.
installed_apps(plugins, toolbar, oidc) ==
    EPHIOS_CORE_MODULES \o THIRD_PARTY_APPS
        \o plugins
        \o <<"dynamic_preferences">>
        \o (IF toolbar THEN <<"django_extensions", "debug_toolbar">> ELSE <<>>)
        \o (IF oidc THEN <<"mozilla_django_oidc">> ELSE <<>>)

\* Lines 106-116 and 304: MIDDLEWARE as the loader leaves it.
middleware(toolbar) ==
    (IF toolbar THEN <<"debug_toolbar.middleware.DebugToolbarMiddleware">> ELSE <<>>)
        \o <<"django.middleware.security.SecurityMiddleware",
             "django.contrib.sessions.middleware.SessionMiddleware",
             "django.middleware.common.CommonMiddleware",
             "django.middleware.csrf.CsrfViewMiddleware",
             "django.contrib.auth.middleware.AuthenticationMiddleware",
             "django.contrib.messages.middleware.MessageMiddleware",
             "django.middleware.clickjacking.XFrameOptionsMiddleware",
             "csp.middleware.CSPMiddleware",
             "ephios.modellogging.middleware.LoggingRequestMiddleware">>

\* Lines 173-176 and 415.
authentication_backends(oidc) ==
    <<"django.contrib.auth.backends.ModelBackend",
      "guardian.backends.ObjectPermissionBackend">>
        \o (IF oidc
            THEN <<"mozilla_django_oidc.auth.OIDCAuthenticationBackend">>
            ELSE <<>>)

\* Line 301 with the toolbar block reading INTERNAL_IPS with a default.
toolbar_reads_with_default(DEBUG, env) == <<>>

\* Lines 301-305: what the debug-toolbar block reads without a default.
toolbar_reads(DEBUG, env) ==
    IF DEBUG /\ env_bool(env, "DEBUG_TOOLBAR", TRUE)
    THEN <<"INTERNAL_IPS">>
    ELSE <<>>

\* Lines 413-422: what the OIDC block reads without a default.
oidc_reads(env) ==
    IF env_bool(env, "ENABLE_OIDC_CLIENT", FALSE) THEN OIDCVars ELSE <<>>

\* The import raised ImproperlyConfigured for the named variable.
ImproperlyConfigured(name) ==
    [status |-> "ImproperlyConfigured", variable |-> name]

\* The module's namespace after a complete import.
loaded(env, eps) ==
    LET DEBUG == env.values["DEBUG"]
        toolbar == DEBUG /\ env_bool(env, "DEBUG_TOOLBAR", TRUE)
        oidc == env_bool(env, "ENABLE_OIDC_CLIENT", FALSE)
        use_file_logging == ~DEBUG /\ "LOGGING_FILE" \in env.present
        lists == plugin_lists(eps)
    IN  [status |-> "loaded",
         DEBUG |-> DEBUG,
         namespace |-> vars_update(hardening(DEBUG), EMAIL_CONFIG),
         DATA_DIR |-> IF "DATA_DIR" \in env.present
                      THEN "from DATA_DIR" ELSE "BASE_DIR/data",
         CACHES |-> IF "CACHE_URL" \in env.present
                    THEN "from CACHE_URL" ELSE "locmemcache://",
         file_handler |-> IF use_file_logging
                          THEN "logging.handlers.TimedRotatingFileHandler"
                          ELSE "logging.NullHandler",
         COMPRESS_ENABLED |-> ~DEBUG,
         CORE_PLUGINS |-> lists.CORE_PLUGINS,
         PLUGINS |-> lists.PLUGINS,
         INSTALLED_APPS |-> installed_apps(lists.PLUGINS, toolbar, oidc),
         MIDDLEWARE |-> middleware(toolbar),
         AUTHENTICATION_BACKENDS |-> authentication_backends(oidc),
         INTERNAL_IPS |-> IF toolbar THEN "from INTERNAL_IPS" ELSE Unset,
         WEBPUSH_SETTINGS |-> IF "VAPID_PRIVATE_KEY_PATH" \in env.present
                              THEN "from VAPID_PRIVATE_KEY_PATH" ELSE Unset,
         ENABLE_OIDC_CLIENT |-> oidc]

\* Importing settings.py: the first read of an absent variable without a
\* default raises; otherwise the namespace is complete.
import_settings(env, eps) ==
    LET m1 == first_missing(env, RequiredVars)
    IN  IF m1 # Unset
        THEN ImproperlyConfigured(m1)
        ELSE LET m2 == first_missing(env, toolbar_reads(env.values["DEBUG"], env))
             IN  IF m2 # Unset
                 THEN ImproperlyConfigured(m2)
                 ELSE LET m3 == first_missing(env, oidc_reads(env))
                      IN  IF m3 # Unset
                          THEN ImproperlyConfigured(m3)
                          ELSE loaded(env, eps)

NotLoaded == [status |-> "not_loaded"]

\* Process start: Django imports the settings module once.
load_settings ==
    /\ settings = NotLoaded
    /\ settings' = import_settings(environ, entry_points)
    /\ UNCHANGED <<environ, entry_points>>

\* The boolean variables, whose value decides what the loader does.
BoolVars == {"DEBUG", "DEBUG_TOOLBAR", "ENABLE_OIDC_CLIENT"}

\* The environments with the given variables present; an absent boolean
\* variable has no value, recorded as FALSE.
Environments(present) ==
    {[present |-> present, values |-> v] :
        v \in {w \in [BoolVars -> BOOLEAN] :
                  \A b \in BoolVars : b \notin present => ~w[b]}}

\* How many of the required and OIDC variables an environment may lack.
MaxMissing == 2

\* The names external packages may advertise as entry points: two plugins
\* of their own, and one that repeats a core plugin.
EntryPointValues ==
    {"ephios_ext_a.apps.PluginApp", "ephios_ext_b.apps.PluginApp",
     "ephios.plugins.pages.apps.PluginApp"}

\* How many entry points are discovered.
MaxEntryPoints == 2

EntryPointLists ==
    UNION {[1..n -> EntryPointValues] : n \in 0..MaxEntryPoints}

(***************************************************************************)
(* Part 3: the page-context processor                                      *)
(***************************************************************************)

\* The labels and URLs footer_link receivers answer with.
Labels == {"Imprint", "Privacy"}
Urls == {"/a", "/b"}

\* What one footer_link receiver may return: a mapping from some of the
\* labels to URLs.
FooterResults ==
    UNION {[D -> Urls] : D \in SUBSET Labels}

\* What one nav_link receiver may return: a list of navigation entries.
NavEntries == {"Events", "Settings"}
NavResults ==
    {<<>>, <<"Events">>, <<"Settings">>, <<"Events", "Settings">>,
     <<"Events", "Events">>}

\* How many receivers are connected to one signal.
MaxResponders == 2

ListsOf(S) == UNION {[1..n -> S] : n \in 0..MaxResponders}

\* The inner loop as footer.setdefault(label, url): an earlier label stays.
footer_setdefault(footer, result) == footer @@ result

\* Lines 11-12: for label, url in result.items(): footer[label] = url
footer_assign(footer, result) == result @@ footer

\* Lines 9-12: the loop over the footer_link responses, in receiver order.
RECURSIVE footer_loop(_, _)
footer_loop(footer, results) ==
    IF results = <<>>
    THEN footer
    ELSE footer_loop(footer_assign(footer, Head(results)), Tail(results))

\* Lines 14-16: nav += result for each nav_link response, in receiver order.
RECURSIVE nav_loop(_, _)
nav_loop(nav, results) ==
    IF results = <<>>
    THEN nav
    ELSE nav_loop(nav \o Head(results), Tail(results))

NotRendered == [status |-> "not_rendered"]

\* ephios_base_context(request): the two signals are sent and aggregated,
\* then the mapping is built; settings.EPHIOS_VERSION is undefined when ephios
\* is not installed as a package (settings.py lines 36-40) and GET_SITE_URL
\* reads SITE_URL without a default (settings.py line 372).
ephios_base_context(version_defined, site_url_present) ==
    /\ context = NotRendered
    /\ LET footer == footer_loop(<<>>, footer_link)
           nav == nav_loop(<<>>, nav_link)
       IN  context' =
             IF ~version_defined
             THEN [status |-> "AttributeError"]
             ELSE IF ~site_url_present
             THEN [status |-> "ImproperlyConfigured"]
             ELSE [status |-> "returned", nav |-> nav, footer |-> footer]
    /\ UNCHANGED <<footer_link, nav_link>>

(***************************************************************************)
(* Part 4: the simpleresource tables                                       *)
(***************************************************************************)

CategoryIds == {"cat1", "cat2"}
ResourceIds == {"res1", "res2", "res3"}
ShiftIds == {"shift1", "shift2"}

\* The number of ResourceAllocation rows that may exist at once.
MaxAllocations == 2
AllocationIds == 1..MaxAllocations

\* on_delete of Resource.category were it DO_NOTHING.
Resource_category_do_nothing == "DO_NOTHING"

\* Resource.category: on_delete=models.CASCADE
Resource_category_on_delete == "CASCADE"

\* ResourceAllocation.shift: on_delete=models.CASCADE
ResourceAllocation_shift_on_delete == "CASCADE"

Restrict(f, S) == [x \in S |-> f[x]]

\* The rows of a table whose foreign key names the given parent.
referring(table, parent) == {x \in DOMAIN table : table[x] = parent}

\* The rows a delete of the parent takes along under the given on_delete.
cascaded(table, parent, on_delete) ==
    IF on_delete = "CASCADE" THEN referring(table, parent) ELSE {}

\* What Model.delete() returns: the rows deleted, per table.
Deleted(op, id, n_categories, n_resources, n_shifts, n_allocations, n_links) ==
    [op |-> op, id |-> id,
     deleted |-> [ResourceCategory |-> n_categories, Resource |-> n_resources,
                  Shift |-> n_shifts, ResourceAllocation |-> n_allocations,
                  ResourceAllocation_resources |-> n_links]]

NoOp == Deleted("none", "-", 0, 0, 0, 0, 0)

create_ResourceCategory(c) ==
    /\ c \notin categories
    /\ categories' = categories \cup {c}
    /\ last_op' = Deleted("create_ResourceCategory", c, 0, 0, 0, 0, 0)
    /\ UNCHANGED <<resources, shifts, allocations, allocation_resources>>

\* A Resource needs a category: the foreign key is not nullable.
create_Resource(r, c) ==
    /\ r \notin DOMAIN resources
    /\ c \in categories
    /\ resources' = (r :> c) @@ resources
    /\ last_op' = Deleted("create_Resource", r, 0, 0, 0, 0, 0)
    /\ UNCHANGED <<categories, shifts, allocations, allocation_resources>>

create_Shift(s) ==
    /\ s \notin shifts
    /\ shifts' = shifts \cup {s}
    /\ last_op' = Deleted("create_Shift", s, 0, 0, 0, 0, 0)
    /\ UNCHANGED <<categories, resources, allocations, allocation_resources>>

\* A ResourceAllocation needs a shift; its resources start empty. Nothing
\* keeps a shift from having several allocations.
create_ResourceAllocation(a, s) ==
    /\ a \notin DOMAIN allocations
    /\ s \in shifts
    /\ allocations' = (a :> s) @@ allocations
    /\ last_op' = Deleted("create_ResourceAllocation", a, 0, 0, 0, 0, 0)
    /\ UNCHANGED <<categories, resources, shifts, allocation_resources>>

\* allocation.resources.set(rs): the many-to-many rows of the allocation.
set_resources(a, rs) ==
    /\ a \in DOMAIN allocations
    /\ rs \subseteq DOMAIN resources
    /\ allocation_resources' =
           {l \in allocation_resources : l[1] # a} \cup {<<a, r>> : r \in rs}
    /\ allocation_resources' # allocation_resources
    /\ last_op' = Deleted("set_resources", a, 0, 0, 0, 0, 0)
    /\ UNCHANGED <<categories, resources, shifts, allocations>>

\* ResourceCategory.delete(): the category, the resources that cascade with
\* it, and the many-to-many rows of those resources.
delete_ResourceCategory(c) ==
    /\ c \in categories
    /\ LET gone == cascaded(resources, c, Resource_category_on_delete)
           links == {l \in allocation_resources : l[2] \in gone}
       IN  /\ categories' = categories \ {c}
           /\ resources' = Restrict(resources, DOMAIN resources \ gone)
           /\ allocation_resources' = allocation_resources \ links
           /\ last_op' = Deleted("delete_ResourceCategory", c, 1,
                                 Cardinality(gone), 0, 0, Cardinality(links))
    /\ UNCHANGED <<shifts, allocations>>

\* Resource.delete(): the resource and its many-to-many rows.
delete_Resource(r) ==
    /\ r \in DOMAIN resources
    /\ LET links == {l \in allocation_resources : l[2] = r}
       IN  /\ resources' = Restrict(resources, DOMAIN resources \ {r})
           /\ allocation_resources' = allocation_resources \ links
           /\ last_op' = Deleted("delete_Resource", r, 0, 1, 0, 0,
                                 Cardinality(links))
    /\ UNCHANGED <<categories, shifts, allocations>>

\* Shift.delete(): the shift, the allocations that cascade with it, and the
\* many-to-many rows of those allocations.
delete_Shift(s) ==
    /\ s \in shifts
    /\ LET gone == cascaded(allocations, s, ResourceAllocation_shift_on_delete)
           links == {l \in allocation_resources : l[1] \in gone}
       IN  /\ shifts' = shifts \ {s}
           /\ allocations' = Restrict(allocations, DOMAIN allocations \ gone)
           /\ allocation_resources' = allocation_resources \ links
           /\ last_op' = Deleted("delete_Shift", s, 0, 0, 1,
                                 Cardinality(gone), Cardinality(links))
    /\ UNCHANGED <<categories, resources>>

\* ResourceAllocation.delete(): the allocation and its many-to-many rows.
delete_ResourceAllocation(a) ==
    /\ a \in DOMAIN allocations
    /\ LET links == {l \in allocation_resources : l[1] = a}
       IN  /\ allocations' = Restrict(allocations, DOMAIN allocations \ {a})
           /\ allocation_resources' = allocation_resources \ links
           /\ last_op' = Deleted("delete_ResourceAllocation", a, 0, 0, 0, 1,
                                 Cardinality(links))
    /\ UNCHANGED <<categories, resources, shifts>>

(***************************************************************************)
(* Specifications                                                          *)
(***************************************************************************)

\* Each part at rest, for the specifications of the other parts.
ConsequencesIdle ==
    /\ approvers = [c \in ConsequenceIds |-> {}]
    /\ ConsequencesCreated

SettingsIdle ==
    /\ environ = [present |-> {}, values |-> [b \in BoolVars |-> FALSE]]
    /\ entry_points = <<>>
    /\ settings = NotLoaded

ContextIdle ==
    /\ footer_link = <<>>
    /\ nav_link = <<>>
    /\ context = NotRendered

\* The tables after the plugin's first migration: empty.
ResourcesEmpty ==
    /\ categories = {}
    /\ resources = <<>>
    /\ shifts = {}
    /\ allocations = <<>>
    /\ allocation_resources = {}
    /\ last_op = NoOp

\* The consequence endpoint under any sequence of requests.
InitConsequences ==
    /\ approvers \in [ConsequenceIds -> ApproverSets]
    /\ ConsequencesCreated
    /\ SettingsIdle
    /\ ContextIdle
    /\ ResourcesEmpty

NextConsequences ==
    /\ \E user \in Users \cup {AnonymousUser}, pk \in PKs, action \in Actions,
          is_ajax \in BOOLEAN :
           \E outcome \in EffectsOf(action) :
              post(user, pk, action, is_ajax, outcome)
    /\ UNCHANGED <<settings_vars, context_vars, resource_vars>>

SpecConsequences == InitConsequences /\ [][NextConsequences]_vars

\* The settings loader over environments that lack any of the optional
\* variables and up to MaxMissing of the others; no external plugin installed.
InitSettingsEnv ==
    /\ \E lacking \in SUBSET (Range(RequiredVars) \cup Range(OIDCVars)) :
          /\ Cardinality(lacking) <= MaxMissing
          /\ \E omitted \in SUBSET OptionalVars :
                environ \in Environments(EnvVars \ (lacking \cup omitted))
    /\ entry_points = <<>>
    /\ settings = NotLoaded
    /\ ConsequencesIdle
    /\ ContextIdle
    /\ ResourcesEmpty

NextSettings ==
    /\ load_settings
    /\ UNCHANGED <<conseq_vars, context_vars, resource_vars>>

SpecSettingsEnv == InitSettingsEnv /\ [][NextSettings]_vars

\* The settings loader over the discovered entry points, in environments
\* that hold every variable but, possibly, the two feature switches.
InitSettingsPlugins ==
    /\ \E omitted \in SUBSET {"DEBUG_TOOLBAR", "ENABLE_OIDC_CLIENT"} :
          environ \in Environments(EnvVars \ omitted)
    /\ entry_points \in EntryPointLists
    /\ settings = NotLoaded
    /\ ConsequencesIdle
    /\ ContextIdle
    /\ ResourcesEmpty

SpecSettingsPlugins == InitSettingsPlugins /\ [][NextSettings]_vars

\* The page-context processor over the receivers connected to the two
\* signals and what each returns.
InitContext ==
    /\ footer_link \in ListsOf(FooterResults)
    /\ nav_link \in ListsOf(NavResults)
    /\ context = NotRendered
    /\ ConsequencesIdle
    /\ SettingsIdle
    /\ ResourcesEmpty

NextContext ==
    /\ \E version_defined \in BOOLEAN, site_url_present \in BOOLEAN :
          ephios_base_context(version_defined, site_url_present)
    /\ UNCHANGED <<conseq_vars, settings_vars, resource_vars>>

SpecContext == InitContext /\ [][NextContext]_vars

\* The simpleresource tables under any sequence of creations, edits and
\* deletions.
InitResources ==
    /\ ResourcesEmpty
    /\ ConsequencesIdle
    /\ SettingsIdle
    /\ ContextIdle

NextResources ==
    /\ \/ \E c \in CategoryIds : create_ResourceCategory(c)
       \/ \E r \in ResourceIds, c \in CategoryIds : create_Resource(r, c)
       \/ \E s \in ShiftIds : create_Shift(s)
       \/ \E a \in AllocationIds, s \in ShiftIds : create_ResourceAllocation(a, s)
       \/ \E a \in AllocationIds, rs \in SUBSET ResourceIds : set_resources(a, rs)
       \/ \E c \in CategoryIds : delete_ResourceCategory(c)
       \/ \E r \in ResourceIds : delete_Resource(r)
       \/ \E s \in ShiftIds : delete_Shift(s)
       \/ \E a \in AllocationIds : delete_ResourceAllocation(a)
    /\ UNCHANGED <<conseq_vars, settings_vars, context_vars>>

SpecResources == InitResources /\ [][NextResources]_vars

(***************************************************************************)
(* Properties                                                              *)
(***************************************************************************)

\* The request of the response was made by a signed-in user on one of that
\* user's editable consequences.
OnEditable(r) ==
    r.user \in Users /\ r.pk \in editable_consequences(r.user)

\* The response is the one the view builds from the given row: the JSON body
\* with exactly the keys state and fail_reason for a background request,
\* else the redirect to the index with the error message iff the row is FAILED.
BuiltFrom(r, row) ==
    IF r.is_ajax
    THEN /\ r.kind = "json"
         /\ DOMAIN r.body = {"state", "fail_reason"}
         /\ r.body.state = row.state
         /\ r.body.fail_reason = row.fail_reason
    ELSE /\ r.kind = "redirect:event_management:index"
         /\ (r.flash_error <=> row.state = FAILED)

\* C1: a POST with action confirm or deny on an editable consequence answers a
\* background request with a JSON body of exactly state and fail_reason, the
\* consequence's values after the action, and any other request with a
\* redirect to the event-management index, with an error message if and only
\* if the resulting state is FAILED.
C1_ResponseShape ==
    (OnEditable(response) /\ response.action \in {"deny", "confirm"})
        => BuiltFrom(response, consequences[response.pk])

\* A standard (non-background) confirm whose effect failed: redirect with the
\* error message, the consequence FAILED.
C1_Witness ==
    /\ OnEditable(response)
    /\ response.action = "confirm"
    /\ ~response.is_ajax
    /\ response.flash_error
    /\ consequences[response.pk].state = FAILED

\* C2: a POST by a signed-in user for a consequence outside that user's
\* editable_consequences, whatever the action value and request style, ends
\* not found, calls neither deny nor confirm and leaves every consequence's
\* state and fail_reason as they were.
C2_NotEditableNotFound ==
    [][(response'.user \in Users /\ ~OnEditable(response'))
          => /\ response'.kind = "not_found"
             /\ response'.called = "none"
             /\ consequences' = consequences]_vars

\* A confirm by bob on an existing consequence bob may not edit was answered
\* not found.
C2_Witness ==
    /\ response.user = "bob"
    /\ response.pk \in ConsequenceIds
    /\ response.pk \notin editable_consequences("bob")
    /\ response.action = "confirm"
    /\ response.kind = "not_found"

\* C3: under any sequence of POSTs a consequence only moves from pending to
\* CONFIRMED, DENIED or FAILED; in a terminal state its state never changes
\* again and it never returns to pending.
C3_TerminalStatesStay ==
    [][\A c \in ConsequenceIds :
          /\ consequences[c].state \in TerminalStates
                => consequences'[c].state = consequences[c].state
          /\ consequences'[c].state \in TerminalStates \cup {consequences[c].state}]_vars

\* deny was invoked on a consequence that had been confirmed, and it is still
\* CONFIRMED.
C3_Witness ==
    /\ response.called = "deny"
    /\ consequences[response.pk].state = CONFIRMED

\* C4: a POST whose action value is neither deny nor confirm invokes neither
\* method and leaves every consequence unchanged; on an editable consequence
\* the response is built from the unchanged row.
C4_UnknownActionNoOp ==
    [][response'.action = "other"
          => /\ response'.called = "none"
             /\ consequences' = consequences
             /\ OnEditable(response')
                   => BuiltFrom(response', consequences[response'.pk])]_vars

\* An unknown action on a consequence that had failed: the redirect still
\* carries the error message.
C4_Witness ==
    /\ OnEditable(response)
    /\ response.action = "other"
    /\ response.kind = "redirect:event_management:index"
    /\ response.flash_error
    /\ consequences[response.pk].state = FAILED

\* The settings of the hardening block.
HardenedSettings ==
    {"SESSION_COOKIE_SECURE", "CSRF_COOKIE_SECURE", "X_FRAME_OPTIONS",
     "SECURE_CONTENT_TYPE_NOSNIFF", "SECURE_SSL_REDIRECT", "SECURE_HSTS_SECONDS",
     "SECURE_HSTS_INCLUDE_SUBDOMAINS", "SECURE_REFERRER_POLICY"}

\* C5: every environment that loads with DEBUG=false yields secure session and
\* CSRF cookies, the SSL redirect, HSTS of 3600 seconds with subdomains,
\* nosniff, the same-origin referrer policy and X_FRAME_OPTIONS DENY; one that
\* loads with DEBUG=true has none of these assigned by the loader.
C5_Hardening ==
    settings.status = "loaded" =>
        IF environ.values["DEBUG"]
        THEN DOMAIN settings.namespace \cap HardenedSettings = {}
        ELSE /\ HardenedSettings \subseteq DOMAIN settings.namespace
             /\ settings.namespace["SESSION_COOKIE_SECURE"] = TRUE
             /\ settings.namespace["CSRF_COOKIE_SECURE"] = TRUE
             /\ settings.namespace["SECURE_SSL_REDIRECT"] = TRUE
             /\ settings.namespace["SECURE_HSTS_SECONDS"] = 3600
             /\ settings.namespace["SECURE_HSTS_INCLUDE_SUBDOMAINS"] = TRUE
             /\ settings.namespace["SECURE_CONTENT_TYPE_NOSNIFF"] = TRUE
             /\ settings.namespace["SECURE_REFERRER_POLICY"] = "same-origin"
             /\ settings.namespace["X_FRAME_OPTIONS"] = "DENY"

\* A production environment (DEBUG=false, with a log file) has loaded.
C5_Witness ==
    /\ settings.status = "loaded"
    /\ "DEBUG" \in environ.present
    /\ ~environ.values["DEBUG"]
    /\ settings.file_handler = "logging.handlers.TimedRotatingFileHandler"

\* C6: PLUGINS is the six core plugins in their declared order followed by the
\* discovered entry points in discovery order, none dropped, reordered or
\* deduplicated, and CORE_PLUGINS is as declared after the appends.
C6_PluginOrder ==
    settings.status = "loaded" =>
        /\ Len(settings.PLUGINS) = 6 + Len(entry_points)
        /\ \A i \in 1..6 : settings.PLUGINS[i] = CORE_PLUGINS[i]
        /\ \A i \in 1..Len(entry_points) :
              settings.PLUGINS[6 + i] = entry_points[i]
        /\ Len(settings.CORE_PLUGINS) = 6
        /\ \A i \in 1..6 : settings.CORE_PLUGINS[i] = CORE_PLUGINS[i]

\* Loaded with two entry points that both repeat a core plugin.
C6_Witness ==
    /\ settings.status = "loaded"
    /\ Len(entry_points) = 2
    /\ entry_points[1] = "ephios.plugins.pages.apps.PluginApp"
    /\ entry_points[2] = "ephios.plugins.pages.apps.PluginApp"

\* The receivers of footer_link that return the label.
Suppliers(label) ==
    {i \in 1..Len(footer_link) : label \in DOMAIN footer_link[i]}

\* The greatest member of a non-empty set of numbers.
Last(S) == CHOOSE i \in S : \A j \in S : j <= i

\* The number of entries the first n receivers of nav_link return together.
RECURSIVE EntriesBefore(_)
EntriesBefore(n) ==
    IF n = 0 THEN 0 ELSE EntriesBefore(n - 1) + Len(nav_link[n])

\* C7: for every list of receivers, the empty one included, the footer maps
\* each label some receiver returned to the URL of the last receiver that
\* returned it, and nav is every receiver's list in receiver order, nothing
\* dropped or deduplicated; with no receiver both are empty.
C7_Aggregation ==
    context.status = "returned" =>
        /\ DOMAIN context.footer = {l \in Labels : Suppliers(l) # {}}
        /\ \A l \in DOMAIN context.footer :
              context.footer[l] = footer_link[Last(Suppliers(l))][l]
        /\ Len(context.nav) = EntriesBefore(Len(nav_link))
        /\ \A i \in 1..Len(nav_link) :
              \A k \in 1..Len(nav_link[i]) :
                 context.nav[EntriesBefore(i - 1) + k] = nav_link[i][k]
        /\ footer_link = <<>> => DOMAIN context.footer = {}
        /\ nav_link = <<>> => context.nav = <<>>

\* Two receivers returned the same label with different URLs, and two
\* receivers returned the same navigation entry.
C7_Witness ==
    /\ context.status = "returned"
    /\ Len(footer_link) = 2
    /\ "Imprint" \in DOMAIN footer_link[1] \cap DOMAIN footer_link[2]
    /\ footer_link[1]["Imprint"] # footer_link[2]["Imprint"]
    /\ Len(nav_link) = 2
    /\ nav_link[1] = <<"Events">>
    /\ nav_link[2] = <<"Events", "Settings">>

\* No row references a missing row.
Integrity ==
    /\ \A r \in DOMAIN resources : resources[r] \in categories
    /\ \A a \in DOMAIN allocations : allocations[a] \in shifts
    /\ \A l \in allocation_resources :
          l[1] \in DOMAIN allocations /\ l[2] \in DOMAIN resources

\* The table keeps exactly the rows in keep, each as it was.
Keeps(before, after, keep) ==
    /\ DOMAIN after = keep
    /\ \A x \in keep : after[x] = before[x]

\* A step that deletes a category deletes exactly the resources of that
\* category and no allocation; a step that deletes a shift deletes exactly
\* the allocations of that shift and no resource or category.
DeleteEffects ==
    /\ last_op'.op = "delete_ResourceCategory" =>
          /\ categories' = categories \ {last_op'.id}
          /\ Keeps(resources, resources',
                   {r \in DOMAIN resources : resources[r] # last_op'.id})
          /\ last_op'.deleted.Resource =
                 Cardinality({r \in DOMAIN resources : resources[r] = last_op'.id})
          /\ allocations' = allocations
          /\ last_op'.deleted.ResourceAllocation = 0
          /\ shifts' = shifts
    /\ last_op'.op = "delete_Shift" =>
          /\ shifts' = shifts \ {last_op'.id}
          /\ Keeps(allocations, allocations',
                   {a \in DOMAIN allocations : allocations[a] # last_op'.id})
          /\ last_op'.deleted.ResourceAllocation =
                 Cardinality({a \in DOMAIN allocations : allocations[a] = last_op'.id})
          /\ resources' = resources
          /\ last_op'.deleted.Resource = 0
          /\ categories' = categories

\* C8: deleting a category deletes exactly its resources, no resource of
\* another category and no allocation; deleting a shift deletes exactly the
\* allocations of that shift and leaves every resource and category; and
\* after any sequence of operations no resource references a missing
\* category and no allocation a missing shift or a missing resource.
C8_Cascade ==
    []Integrity /\ [][DeleteEffects]_vars

\* A category owning two resources was deleted with them; a resource of the
\* other category and an allocation are still there.
C8_Witness ==
    /\ last_op.op = "delete_ResourceCategory"
    /\ last_op.deleted.Resource = 2
    /\ last_op.deleted.ResourceAllocation_resources = 2
    /\ Cardinality(DOMAIN resources) = 1
    /\ DOMAIN allocations # {}

\* The positions of a name in a list.
Positions(list, name) == {i \in 1..Len(list) : list[i] = name}

\* Every occurrence of a comes before every occurrence of b, and both occur.
Before(list, a, b) ==
    /\ Positions(list, a) # {}
    /\ Positions(list, b) # {}
    /\ \A i \in Positions(list, a), j \in Positions(list, b) : i < j

\* C9 as stated: loading fails exactly when one of the ten required
\* variables is absent, or ENABLE_OIDC_CLIENT is true and an OIDC client
\* variable is absent.
C9_FailsExactlyWhenRequiredMissing ==
    settings # NotLoaded =>
        (settings.status = "ImproperlyConfigured"
            <=> \/ \E v \in Range(RequiredVars) : v \notin environ.present
                \/ /\ "ENABLE_OIDC_CLIENT" \in environ.present
                   /\ environ.values["ENABLE_OIDC_CLIENT"]
                   /\ \E v \in Range(OIDCVars) : v \notin environ.present)

\* C9: loading fails exactly when one of the ten required variables is absent,
\* or ENABLE_OIDC_CLIENT is true and an OIDC client variable is absent, or
\* DEBUG is true, DEBUG_TOOLBAR is absent or true, and INTERNAL_IPS is absent;
\* otherwise it completes, whatever other optional variables are absent.
C9_FailsExactlyWhenReadMissing ==
    settings # NotLoaded =>
        (settings.status = "ImproperlyConfigured"
            <=> \/ \E v \in Range(RequiredVars) : v \notin environ.present
                \/ /\ "ENABLE_OIDC_CLIENT" \in environ.present
                   /\ environ.values["ENABLE_OIDC_CLIENT"]
                   /\ \E v \in Range(OIDCVars) : v \notin environ.present
                \/ /\ "DEBUG" \in environ.present
                   /\ environ.values["DEBUG"]
                   /\ "DEBUG_TOOLBAR" \in environ.present
                         => environ.values["DEBUG_TOOLBAR"]
                   /\ "INTERNAL_IPS" \notin environ.present)

\* Every required variable present, DEBUG=true, and the import failed on
\* INTERNAL_IPS.
C9_Witness ==
    /\ settings.status = "ImproperlyConfigured"
    /\ settings.variable = "INTERNAL_IPS"
    /\ Range(RequiredVars) \subseteq environ.present

\* C10: in every configuration the loader produces, LoggingRequestMiddleware
\* comes after the session, authentication and message middleware, and
\* dynamic_preferences comes after every ephios core module and every plugin
\* of PLUGINS in INSTALLED_APPS.
C10_Ordering ==
    settings.status = "loaded" =>
        /\ \A m \in {"django.contrib.sessions.middleware.SessionMiddleware",
                      "django.contrib.auth.middleware.AuthenticationMiddleware",
                      "django.contrib.messages.middleware.MessageMiddleware"} :
              Before(settings.MIDDLEWARE, m,
                     "ephios.modellogging.middleware.LoggingRequestMiddleware")
        /\ \A app \in Range(EPHIOS_CORE_MODULES) \cup Range(settings.PLUGINS) :
              Before(settings.INSTALLED_APPS, app, "dynamic_preferences")

\* Loaded with the debug toolbar and the OIDC client on and an external
\* plugin discovered.
C10_Witness ==
    /\ settings.status = "loaded"
    /\ "debug_toolbar.middleware.DebugToolbarMiddleware" \in Range(settings.MIDDLEWARE)
    /\ "mozilla_django_oidc" \in Range(settings.INSTALLED_APPS)
    /\ "ephios_ext_a.apps.PluginApp" \in Range(settings.PLUGINS)

====
